---- MODULE Spec2Model ----
(***************************************************************************)
(* Model of examples/dtc/loadgen/main.py: a producer (run_simulation /     *)
(* create_lead) that inserts ConversionEvents into a PriorityQueue and a   *)
(* consumer thread (convert) that takes the earliest event and either      *)
(* finalizes it (log_conversion) or puts it back and sleeps PERIOD.        *)
(*                                                                         *)
(* Time is counted in ticks of 25 ms (40 ticks per second): PERIOD =       *)
(* 0.05 s = 2 ticks and the conversion window 30 s = 1200 ticks.  The      *)
(* producer's time.sleep(0.01) is shorter than a tick: it returns within   *)
(* the tick it started in or in a later one.                               *)
(* A score s stands for the float s / ScoreDen in [0, 1).                  *)
(***************************************************************************)
EXTENDS Integers, Sequences, FiniteSets

\* ------------------------------------------------------------- bounds
MaxLeads == 2        \* leads the producer creates in one run
MaxTime == 2         \* ticks the clock runs freely; after that it only
                     \* advances while somebody is waiting for it
MaxDelay == 3        \* largest conversion delay drawn, in ticks
FirstId == 1         \* value of the leads id sequence at start
MaxStartId == 18     \* largest start of the id sequence under BucketSpec
ScoreDen == 3        \* scores are 0/ScoreDen .. (ScoreDen-1)/ScoreDen

\* ---------------------------------------------------- program constants
PERIOD == 2                  \* 0.05 s
CONVERSION_WINDOW == 1200    \* 30 s
MIN_CONVERSION_AMOUNT == 1000
MAX_CONVERSION_AMOUNT == 25000
MIN_COUPON_AMOUNT == 500
MAX_COUPON_AMOUNT == 5000
None == -1                   \* Lead.id before the insert returns
MAXSIZE == 0                 \* PriorityQueue(): maxsize defaults to 0

VARIABLES
  now,               \* time.time(), in ticks
  queue,             \* PriorityQueue.queue: the heap list
  nextId,            \* next value of the leads table's id sequence
  leads,             \* ids of the rows of table leads
  predictions,       \* records sent to topic conversion_predictions
                     \* (their lead_id and experiment_bucket)
  coupons,           \* rows of table coupons
  conversions,       \* log_conversion calls, in order: event, outcome
  puts,              \* events of the producer's queue.put calls, in order
  ppc,               \* producer's position in run_simulation/create_lead
  lead, score, label, experiment_bucket, sent_coupon,   \* create_lead locals
  new_event,         \* the ConversionEvent built at line 223
  cpc,               \* consumer's position in convert
  conversion_event,  \* convert's local, NoEvent before the first get
  time_to_wait,      \* convert's local, 0 when it is no longer read
  cwake,             \* when the consumer's time.sleep(PERIOD) may return
  race               \* "none" until convert's first queue.get(), then "got",
                     \* "put_after_get" once the producer put an event
                     \* after it

prodVars == <<ppc, lead, score, label, experiment_bucket, sent_coupon,
              new_event>>
consVars == <<cpc, conversion_event, time_to_wait, cwake>>
dbVars == <<nextId, leads, predictions, coupons, conversions>>
vars == <<now, queue, puts, race, dbVars, prodVars, consVars>>

\* ------------------------------------------------------------ data
NoLead == [id |-> None]
NoEvent == [converted_at |-> 0, lead |-> NoLead, conversion_amount |-> 0]
ConversionEvent(converted_at, l, conversion_amount) ==
  [converted_at |-> converted_at, lead |-> l,
   conversion_amount |-> conversion_amount]

\* the comparison the wrong way round
LtReversed(self, other) == self.converted_at > other.converted_at

\* ConversionEvent.__lt__
Lt(self, other) == self.converted_at < other.converted_at

\* ---------------------------------------------------------------- heap
\* queue.PriorityQueue keeps its items in a list ordered by heapq, which
\* compares items with __lt__ only.  Positions are 0-based as in heapq;
\* heap[pos + 1] is Python's heap[pos].

RECURSIVE SiftDownFrom(_, _, _, _)
\* heapq._siftdown: the loop, with newitem = heap[pos] saved by the caller
SiftDownFrom(heap, startpos, pos, newitem) ==
  IF pos > startpos
  THEN LET parentpos == (pos - 1) \div 2
           parent == heap[parentpos + 1]
       IN IF Lt(newitem, parent)
          THEN SiftDownFrom([heap EXCEPT ![pos + 1] = parent],
                            startpos, parentpos, newitem)
          ELSE [heap EXCEPT ![pos + 1] = newitem]
  ELSE [heap EXCEPT ![pos + 1] = newitem]

SiftDown(heap, startpos, pos) ==
  SiftDownFrom(heap, startpos, pos, heap[pos + 1])

RECURSIVE SiftUpFrom(_, _, _, _)
\* heapq._siftup: bubble the smaller child up until a leaf, then sift down
SiftUpFrom(heap, startpos, pos, newitem) ==
  LET endpos == Len(heap)
      leftpos == 2 * pos + 1
      rightpos == leftpos + 1
  IN IF leftpos < endpos
     THEN LET childpos ==
                IF rightpos < endpos
                   /\ ~Lt(heap[leftpos + 1], heap[rightpos + 1])
                THEN rightpos ELSE leftpos
          IN SiftUpFrom([heap EXCEPT ![pos + 1] = heap[childpos + 1]],
                        startpos, childpos, newitem)
     ELSE SiftDown([heap EXCEPT ![pos + 1] = newitem], startpos, pos)

SiftUp(heap, pos) == SiftUpFrom(heap, pos, pos, heap[pos + 1])

\* a plain FIFO queue.Queue in place of the PriorityQueue
HeapPushFifo(heap, item) == Append(heap, item)

\* PriorityQueue._put: heappush(self.queue, item)
HeapPush(heap, item) == SiftDown(Append(heap, item), 0, Len(heap))

\* PriorityQueue._get: heappop(self.queue), the item returned
HeapPopItem(heap) == heap[1]

\* PriorityQueue._get: heappop(self.queue), the list left behind
HeapPopRest(heap) ==
  LET lastelt == heap[Len(heap)]
      rest == SubSeq(heap, 1, Len(heap) - 1)
  IN IF rest = <<>> THEN rest ELSE SiftUp([rest EXCEPT ![1] = lastelt], 0)

\* ------------------------------------------------------------ helpers
Range(s) == {s[i] : i \in 1..Len(s)}
Min(a, b) == IF a < b THEN a ELSE b

\* a delay drawn from an interval that starts below zero
DelaysFromBelowZero == (0 - 1)..Min(MaxDelay, CONVERSION_WINDOW - 1)
\* random.random() * 30, in ticks, as far as the model draws it
Delays == 0..Min(MaxDelay, CONVERSION_WINDOW - 1)
\* random.randint(1_000, 25_000): convert and the queue only copy the
\* amount, so the model draws one value of the range
ConversionAmounts == {MAX_CONVERSION_AMOUNT}
\* random.randint(500, 5_000): one value of the range
CouponAmounts == {MIN_COUPON_AMOUNT}
\* random.random(), as a numerator over ScoreDen
Scores == 0..(ScoreDen - 1)

\* label = int(score > threshold), threshold = 0.5
Label(s) == IF 2 * s > ScoreDen THEN 1 ELSE 0

\* a control group of 10% (< 1 in place of <= 1)
BucketTenPercent(id) == IF id % 10 < 1 THEN "control" ELSE "experiment"

\* experiment_bucket = "control" if lead.id % 10 <= 1 else "experiment"
Bucket(id) == IF id % 10 <= 1 THEN "control" ELSE "experiment"

\* ---------------------------------------------------------------- Init
\* the state when run_simulation enters its loop and convert its own, with
\* the id sequence of table leads at start
InitFrom(start) ==
  /\ now = 0
  /\ queue = <<>>
  /\ nextId = start
  /\ leads = {}
  /\ predictions = <<>>
  /\ coupons = <<>>
  /\ conversions = <<>>
  /\ puts = <<>>
  /\ ppc = "create"
  /\ lead = NoLead
  /\ score = 0
  /\ label = 0
  /\ experiment_bucket = "none"
  /\ sent_coupon = FALSE
  /\ new_event = NoEvent
  /\ cpc = "get"
  /\ conversion_event = NoEvent
  /\ time_to_wait = 0
  /\ cwake = 0
  /\ race = "none"

Init == InitFrom(FirstId)

\* ------------------------------------------------------------ producer
ResetLocals ==
  /\ lead' = NoLead
  /\ score' = 0
  /\ label' = 0
  /\ experiment_bucket' = "none"
  /\ sent_coupon' = FALSE
  /\ new_event' = NoEvent

\* An exception leaves create_lead and run_simulation's while True loop:
\* nothing catches it, the main thread ends.
ProducerRaise ==
  /\ ppc' = "dead"
  /\ ResetLocals

\* create_lead returns; run_simulation calls time.sleep(0.01)
ProducerReturn ==
  /\ ppc' = "sleeping"
  /\ ResetLocals

\* lines 165-178, fetchone() returns a row: lead.id = res[0]
LeadInsertReturnsId ==
  /\ ppc = "create"
  /\ Cardinality(leads) < MaxLeads
  /\ lead' = [id |-> nextId]
  /\ leads' = leads \cup {nextId}
  /\ nextId' = nextId + 1
  /\ ppc' = "predict"
  /\ UNCHANGED <<now, queue, puts, race, predictions, coupons,
                 conversions, score, label, experiment_bucket, sent_coupon,
                 new_event, consVars>>

\* the missing row is ignored and create_lead goes on with lead.id unset
LeadInsertNoneIgnored ==
  /\ ppc = "create"
  /\ Cardinality(leads) < MaxLeads
  /\ lead' = NoLead
  /\ ppc' = "predict"
  /\ UNCHANGED <<now, queue, puts, race, dbVars, score, label,
                 experiment_bucket, sent_coupon, new_event, consVars>>

\* lines 174-176, fetchone() returns None: raise RuntimeError
LeadInsertReturnsNone ==
  /\ ppc = "create"
  /\ Cardinality(leads) < MaxLeads
  /\ ProducerRaise
  /\ UNCHANGED <<now, queue, puts, race, dbVars, consVars>>

\* the score is drawn but log_prediction is not called
PredictPublishesNothing ==
  /\ ppc = "predict"
  /\ \E s \in Scores :
       /\ score' = s
       /\ label' = Label(s)
       /\ experiment_bucket' = Bucket(lead.id)
  /\ ppc' = "coupon"
  /\ UNCHANGED <<now, queue, puts, race, dbVars, lead, sent_coupon,
                 new_event, consVars>>

\* lines 186-192: score, label, bucket, log_prediction
Predict ==
  /\ ppc = "predict"
  /\ \E s \in Scores :
       /\ score' = s
       /\ label' = Label(s)
       /\ experiment_bucket' = Bucket(lead.id)
       /\ predictions' = Append(predictions,
            [lead_id |-> lead.id, experiment_bucket |-> Bucket(lead.id)])
  /\ ppc' = "coupon"
  /\ UNCHANGED <<now, queue, puts, race, nextId, leads, coupons,
                 conversions, lead, sent_coupon, new_event, consVars>>

\* line 148: producer.send raises
PredictFails ==
  /\ ppc = "predict"
  /\ ProducerRaise
  /\ UNCHANGED <<now, queue, puts, race, dbVars, consVars>>

\* the bucket is not looked at
CouponDueIgnoringBucket == label = 0

\* line 197
CouponDue == label = 0 /\ experiment_bucket # "control"

\* lines 196-202
Coupon ==
  /\ ppc = "coupon"
  /\ IF CouponDue
     THEN \E coupon_amount \in CouponAmounts :
            /\ coupons' = Append(coupons,
                 [lead_id |-> lead.id, amount |-> coupon_amount])
            /\ sent_coupon' = TRUE
     ELSE /\ sent_coupon' = FALSE
          /\ UNCHANGED coupons
  /\ ppc' = "decide"
  /\ UNCHANGED <<now, queue, puts, race, nextId, leads, predictions,
                 conversions, lead, score, label, experiment_bucket,
                 new_event, consVars>>

\* lines 93-99: log_coupon's execute raises
CouponFails ==
  /\ ppc = "coupon"
  /\ CouponDue
  /\ ProducerRaise
  /\ UNCHANGED <<now, queue, puts, race, dbVars, consVars>>

\* the second flip counts whether or not a coupon was sent
DidConvertSecondFlipAlways(flip1, flip2) == flip1 < score \/ flip2 < score

\* lines 208-213: random.random() < score, and a second flip
DidConvert(flip1, flip2) ==
  LET did_convert == flip1 < score
  IN IF sent_coupon /\ ~did_convert THEN flip2 < score ELSE did_convert

\* lines 208-220: the flips; converted_at = time.time() + random.random() * 30
Decide ==
  /\ ppc = "decide"
  /\ \E flip1 \in Scores, flip2 \in Scores :
       IF DidConvert(flip1, flip2)
       THEN /\ \E delay \in Delays, conversion_amount \in ConversionAmounts :
                 new_event' =
                   ConversionEvent(now + delay, lead, conversion_amount)
            /\ ppc' = "put"
            /\ UNCHANGED <<lead, score, label, experiment_bucket,
                           sent_coupon>>
       ELSE ProducerReturn
  /\ UNCHANGED <<now, queue, puts, race, dbVars, consVars>>

\* a queue built with PriorityQueue(maxsize=1)
FullAtOne(heap) == 1 <= Len(heap)

\* Queue.put blocks while 0 < maxsize <= qsize
Full(heap) == 0 < MAXSIZE /\ MAXSIZE <= Len(heap)

\* line 223: queue.put(ConversionEvent(...)), then create_lead returns
Put ==
  /\ ppc = "put"
  /\ ~Full(queue)
  /\ queue' = HeapPush(queue, new_event)
  /\ puts' = Append(puts, new_event)
  /\ race' = IF race = "none" THEN "none" ELSE "put_after_get"
  /\ ProducerReturn
  /\ UNCHANGED <<now, dbVars, consVars>>

\* line 252: time.sleep(0.01) returns, next iteration of while True
ProducerWake ==
  /\ ppc = "sleeping"
  /\ ppc' = "create"
  /\ UNCHANGED <<now, queue, puts, race, dbVars, lead, score, label,
                 experiment_bucket, sent_coupon, new_event, consVars>>

\* ------------------------------------------------------------ consumer
\* the head is read but left in the queue
GetPeeks ==
  /\ cpc = "get"
  /\ queue # <<>>
  /\ conversion_event' = HeapPopItem(queue)
  /\ cpc' = "eval"
  /\ race' = IF race = "none" THEN "got" ELSE race
  /\ UNCHANGED <<now, queue, puts, dbVars, prodVars, time_to_wait, cwake>>

\* line 112: conversion_event = queue.get(), blocking while the queue is empty
Get ==
  /\ cpc = "get"
  /\ queue # <<>>
  /\ conversion_event' = HeapPopItem(queue)
  /\ queue' = HeapPopRest(queue)
  /\ cpc' = "eval"
  /\ race' = IF race = "none" THEN "got" ELSE race
  /\ UNCHANGED <<now, puts, dbVars, prodVars, time_to_wait, cwake>>

\* the difference taken the other way round
TimeToWaitReversed(ev, t) == t - ev.converted_at

\* line 113: conversion_event.converted_at - time.time()
TimeToWait(ev, t) == ev.converted_at - t

\* the test with >= in place of >
NotYetDueInclusive(ttw) == ttw >= PERIOD

\* the test against twice the period
NotYetDueLate(ttw) == ttw > 2 * PERIOD

\* line 114
NotYetDue(ttw) == ttw > PERIOD

\* lines 113-114: time_to_wait = converted_at - time.time(); the test
Eval ==
  /\ cpc = "eval"
  /\ time_to_wait' = TimeToWait(conversion_event, now)
  /\ cpc' = IF NotYetDue(time_to_wait') THEN "requeue" ELSE "finalize"
  /\ UNCHANGED <<now, queue, puts, race, dbVars, prodVars,
                 conversion_event, cwake>>

\* the event is rescheduled one period later when it is put back
RequeuedPostponed(ev) == [ev EXCEPT !.converted_at = @ + PERIOD]

\* line 116: what is put back
Requeued(ev) == ev

\* the event is dropped instead of being put back
RequeueDrops ==
  /\ cpc = "requeue"
  /\ cwake' = now + PERIOD
  /\ cpc' = "sleeping"
  /\ time_to_wait' = 0
  /\ UNCHANGED <<now, queue, puts, race, dbVars, prodVars, conversion_event>>

\* lines 116-117: queue.put(conversion_event); time.sleep(PERIOD)
Requeue ==
  /\ cpc = "requeue"
  /\ queue' = HeapPush(queue, Requeued(conversion_event))
  /\ cwake' = now + PERIOD
  /\ cpc' = "sleeping"
  /\ time_to_wait' = 0
  /\ UNCHANGED <<now, puts, race, dbVars, prodVars, conversion_event>>

\* line 117: time.sleep(PERIOD) returns, back to while True
ConsumerWake ==
  /\ cpc = "sleeping"
  /\ now >= cwake
  /\ cpc' = "get"
  /\ cwake' = 0
  /\ UNCHANGED <<now, queue, puts, race, dbVars, prodVars,
                 conversion_event, time_to_wait>>

\* lines 124-126 and 71-85: log_conversion(conn, lead, conversion_amount)
LogConversion(ok) ==
  /\ conversions' = Append(conversions,
       [ev |-> conversion_event, ok |-> ok])
  /\ time_to_wait' = 0
  /\ UNCHANGED <<now, queue, puts, race, nextId, leads, predictions,
                 coupons, prodVars, conversion_event, cwake>>

\* lines 119-126: the call returns, back to while True
Finalize ==
  /\ cpc = "finalize"
  /\ LogConversion(TRUE)
  /\ cpc' = "get"

\* the failure is caught, the event put back and the loop goes on
FinalizeFailsAndRetries ==
  /\ cpc = "finalize"
  /\ conversions' = Append(conversions,
       [ev |-> conversion_event, ok |-> FALSE])
  /\ queue' = HeapPush(queue, conversion_event)
  /\ time_to_wait' = 0
  /\ cpc' = "get"
  /\ UNCHANGED <<now, puts, race, nextId, leads, predictions, coupons,
                 prodVars, conversion_event, cwake>>

\* lines 75-85: execute raises; nothing in convert catches it, the thread ends
FinalizeFails ==
  /\ cpc = "finalize"
  /\ LogConversion(FALSE)
  /\ cpc' = "dead"

\* --------------------------------------------------------------- clock
Pending ==
  Range(queue)
    \cup (IF cpc \in {"eval", "requeue", "finalize"}
          THEN {conversion_event} ELSE {})
    \cup (IF ppc = "put" THEN {new_event} ELSE {})

\* somebody is waiting for the clock
Waiting ==
  \/ cpc = "sleeping" /\ now < cwake
  \/ cpc # "dead" /\ \E e \in Pending : e.converted_at - now > PERIOD

Tick ==
  /\ now < MaxTime \/ Waiting
  /\ now' = now + 1
  /\ UNCHANGED <<queue, puts, race, dbVars, prodVars, consVars>>

\* ---------------------------------------------------------------- Spec
Next ==
  \/ LeadInsertReturnsId
  \/ LeadInsertReturnsNone
  \/ Predict
  \/ PredictFails
  \/ Coupon
  \/ CouponFails
  \/ Decide
  \/ Put
  \/ ProducerWake
  \/ Get
  \/ Eval
  \/ Requeue
  \/ ConsumerWake
  \/ Finalize
  \/ FinalizeFails
  \/ Tick

Spec == Init /\ [][Next]_vars

\* The producer alone (the consumer thread has not been scheduled yet), from
\* any start of the id sequence: table leads outlives the process.
BucketInit == \E start \in 0..MaxStartId : InitFrom(start)

ProducerNext ==
  \/ LeadInsertReturnsId
  \/ LeadInsertReturnsNone
  \/ Predict
  \/ PredictFails
  \/ Coupon
  \/ CouponFails
  \/ Decide
  \/ Put
  \/ ProducerWake

BucketSpec == BucketInit /\ [][ProducerNext]_vars

\* No collaborator call fails; the consumer thread and the clock keep running.
NextNoFailure ==
  \/ LeadInsertReturnsId
  \/ Predict
  \/ Coupon
  \/ Decide
  \/ Put
  \/ ProducerWake
  \/ Get
  \/ Eval
  \/ Requeue
  \/ ConsumerWake
  \/ Finalize
  \/ Tick

LiveSpec ==
  /\ Init
  /\ [][NextNoFailure]_vars
  /\ WF_vars(Get)
  /\ WF_vars(Eval)
  /\ WF_vars(Requeue)
  /\ WF_vars(ConsumerWake)
  /\ WF_vars(Finalize)
  /\ WF_vars(Tick)


\* ============================================================== claims
Held == cpc \in {"eval", "requeue", "finalize"}

\* C1. Ordering invariant: every queue.get() of convert returns an event
\* whose converted_at is <= the converted_at of every event still in the
\* queue right after the take, whatever the producer has inserted before.
C1_OrderingInvariant ==
  [][(cpc = "get" /\ cpc' = "eval")
       => /\ \A i \in 1..Len(queue') :
               conversion_event'.converted_at <= queue'[i].converted_at
          /\ Len(queue') = Len(queue) - 1
          /\ Range(queue) = Range(queue') \cup {conversion_event'}]_vars

\* C1 witness: the consumer has taken an event, put it back, and after a
\* producer insert that raced with it has just taken the later-inserted,
\* strictly earlier event, leaving the first one in the queue.
C1_Witness ==
  /\ cpc = "eval"
  /\ race = "put_after_get"
  /\ Len(puts) = 2
  /\ conversion_event = puts[2]
  /\ queue = <<puts[1]>>
  /\ puts[2].converted_at < puts[1].converted_at

\* C2. No early fire: whenever convert is at the log_conversion call for an
\* event, the event's converted_at minus the current time is at most PERIOD.
C2_NoEarlyFire ==
  cpc = "finalize" => conversion_event.converted_at - now <= PERIOD

\* C2 witness: convert is about to finalize an event exactly PERIOD early,
\* with a producer insert after its first take.
C2_Witness ==
  /\ cpc = "finalize"
  /\ conversion_event.converted_at - now = PERIOD
  /\ race = "put_after_get"

\* Number of log_conversion calls made for lead id
Attempts(id) ==
  Cardinality({i \in 1..Len(conversions) : conversions[i].ev.lead.id = id})
Inserted(id) == \E i \in 1..Len(puts) : puts[i].lead.id = id
LeadIds == FirstId..(FirstId + MaxLeads - 1)

\* C3. No lost events: with no failing collaborator call, a fairly scheduled
\* consumer and an advancing clock, every event the producer inserts is
\* eventually finalized by log_conversion, and never more than once.
C3_NoLostEvents ==
  /\ \A id \in LeadIds : Inserted(id) ~> (Attempts(id) = 1)
  /\ [](\A id \in LeadIds : Attempts(id) <= 1)

\* C3 witness: two events were inserted, the second after the consumer's
\* first take and after a requeue of the first; both have been finalized.
C3_Witness ==
  /\ Len(puts) = 2
  /\ race = "put_after_get"
  /\ Len(conversions) = 2
  /\ conversions[1].ev = puts[2]
  /\ conversions[2].ev = puts[1]
  /\ queue = <<>>

\* the step in which convert calls log_conversion
FinalizeCall == cpc = "finalize" /\ Len(conversions') = Len(conversions) + 1

\* C4 as stated: each log_conversion call is made at a time in
\* [converted_at, converted_at + PERIOD].
C4_FinalizeWithinPeriodAfter ==
  [][FinalizeCall
       => /\ conversion_event.converted_at <= now
          /\ now <= conversion_event.converted_at + PERIOD]_vars

\* C4 amended: each log_conversion call is made no earlier than
\* converted_at - PERIOD (it may precede converted_at by up to PERIOD, as for
\* an event taken less than PERIOD before its timestamp), and at a time that
\* the test of line 114 accepted: the time_to_wait read before the call is
\* at most PERIOD and not smaller than the slack at the call.
C4_FinalizeNotBeforePeriodEarly ==
  [][FinalizeCall
       => /\ now >= conversion_event.converted_at - PERIOD
          /\ time_to_wait <= PERIOD
          /\ conversion_event.converted_at - now <= time_to_wait]_vars

\* C4 witness: log_conversion has been called for two events with different
\* timestamps, and the first call was made before the event's timestamp:
\* its converted_at is still in the future after both calls.
C4_Witness ==
  /\ Len(conversions) = 2
  /\ conversions[1].ev.converted_at > now
  /\ conversions[1].ev.converted_at < conversions[2].ev.converted_at
  /\ cpc = "get"

\* conversions are in ascending order of converted_at
Ascending(log) ==
  \A i \in 1..Len(log) : \A j \in i..Len(log) :
    log[i].ev.converted_at <= log[j].ev.converted_at

\* C5. Drain order: when every event was put before the consumer's first
\* take (no insert after it), log_conversion is called for the events in
\* ascending order of converted_at, whatever the insertion order.
C5_DrainOrder == race # "put_after_get" => Ascending(conversions)

\* C5 witness: two events inserted later-timestamp first, both before the
\* first take, both finalized, the earlier timestamp first.
C5_Witness ==
  /\ race = "got"
  /\ Len(puts) = 2
  /\ puts[1].converted_at > puts[2].converted_at
  /\ Len(conversions) = 2
  /\ conversions[1].ev = puts[2]
  /\ conversions[2].ev = puts[1]

\* C6. Due-event transition: an event taken with slack (converted_at - now)
\* at most PERIOD, negative slack included, goes to the log_conversion call
\* in the same iteration with no put and no sleep; with slack > PERIOD it is
\* put back, the consumer sleeps PERIOD, and log_conversion is not called.
C6_DueTransition ==
  [][/\ (cpc = "eval" /\ cpc' # "eval")
          => /\ cpc' = IF conversion_event.converted_at - now <= PERIOD
                       THEN "finalize" ELSE "requeue"
             /\ UNCHANGED <<queue, conversions, conversion_event>>
     /\ (cpc = "finalize" /\ cpc' # "finalize")
          => /\ conversions' = Append(conversions,
                  [ev |-> conversion_event, ok |-> cpc' # "dead"])
             /\ cpc' \in {"get", "dead"}
             /\ UNCHANGED queue
     /\ (cpc = "requeue" /\ cpc' # "requeue")
          => /\ Range(queue') = Range(queue) \cup {conversion_event}
             /\ Len(queue') = Len(queue) + 1
             /\ cpc' = "sleeping"
             /\ cwake' = now + PERIOD
             /\ UNCHANGED conversions
     /\ (cpc = "sleeping" /\ cpc' # "sleeping")
          => /\ now >= cwake
             /\ cpc' = "get"
             /\ UNCHANGED <<queue, conversions>>]_vars

\* C6 witness: an already-due event (negative slack) stands at the
\* log_conversion call, taken from a queue that another event was put back to.
C6_Witness ==
  /\ cpc = "finalize"
  /\ time_to_wait < 0
  /\ Len(queue) = 1
  /\ queue[1].converted_at - now > PERIOD

RECURSIVE Drain(_)
\* the order in which successive queue.get() calls empty the heap
Drain(heap) ==
  IF heap = <<>> THEN <<>>
  ELSE <<HeapPopItem(heap)>> \o Drain(HeapPopRest(heap))

Timestamps(evs) == [i \in 1..Len(evs) |-> evs[i].converted_at]
Without(evs, ev) == SelectSeq(evs, LAMBDA e : e # ev)
IndexOf(evs, ev) == CHOOSE i \in 1..Len(evs) : evs[i] = ev

LeadInsertFailed == ppc = "create" /\ ppc' # "create" /\ nextId' = nextId

\* C8 as stated: when the lead insert returns no identifier, the iteration
\* ends with no prediction, coupon or event, and run_simulation's loop goes
\* on to its sleep and the next iteration.
C8_LeadFailureAbortsIterationOnly ==
  [][LeadInsertFailed
       => /\ UNCHANGED <<predictions, coupons, queue, puts>>
          /\ ppc' = "sleeping"]_vars

\* C9. At-most-once finalize on failure: an event whose log_conversion call
\* failed is dropped: it is not in the queue, no later log_conversion call
\* is made, and no event has more than one log_conversion call.
C9_AtMostOnceOnFailure ==
  /\ \A i \in 1..Len(conversions) :
       ~conversions[i].ok
         => /\ conversions[i].ev \notin Range(queue)
            /\ i = Len(conversions)
            /\ ~Held
  /\ \A i \in 1..Len(conversions) : \A j \in 1..Len(conversions) :
       conversions[i].ev.lead.id = conversions[j].ev.lead.id => i = j

\* C9 witness: the log_conversion call for an event failed while another
\* event, inserted earlier, is pending in the queue.
C9_Witness ==
  /\ Len(conversions) = 1
  /\ ~conversions[1].ok
  /\ Len(puts) = 2
  /\ conversions[1].ev = puts[2]
  /\ queue = <<puts[1]>>

\* C10. Bucket assignment: for lead ids 0..19 the bucket computed and
\* published for a lead is "control" exactly for ids 0, 1, 10 and 11, and
\* "experiment" for the others.
C10_BucketAssignment ==
  /\ \A i \in 1..Len(predictions) :
       LET p == predictions[i]
       IN p.lead_id \in 0..19
            => p.experiment_bucket =
                 IF p.lead_id \in {0, 1, 10, 11}
                 THEN "control" ELSE "experiment"
  /\ (ppc \in {"coupon", "decide", "put"} /\ lead.id \in 0..19)
       => experiment_bucket =
            IF lead.id \in {0, 1, 10, 11} THEN "control" ELSE "experiment"

\* C10 witness: predictions were published for leads 11 and 12, the first
\* in control and the second in experiment.
C10_Witness ==
  /\ Len(predictions) = 2
  /\ predictions[1] = [lead_id |-> 11, experiment_bucket |-> "control"]
  /\ predictions[2] = [lead_id |-> 12, experiment_bucket |-> "experiment"]

\* C11. Insert never blocks: whenever the producer stands at queue.put the
\* put can be taken, whatever the number of pending events and wherever the
\* consumer is, and it adds the event to the queue.
C11_PutNeverBlocks ==
  ppc = "put"
    => /\ ENABLED Put
       /\ ~Full(queue)
       /\ Len(HeapPush(queue, new_event)) = Len(queue) + 1

\* C11 witness: the producer stands at queue.put while an event is already
\* pending and the consumer sleeps after a requeue.
C11_Witness ==
  /\ ppc = "put"
  /\ Len(queue) >= 1
  /\ cpc = "sleeping"

\* the finalize step of the event has begun: convert found it due (line 114
\* not taken) or log_conversion was already called with it
FinalizeBegun(ev) ==
  \/ cpc = "finalize" /\ conversion_event = ev
  \/ \E i \in 1..Len(conversions) : conversions[i].ev = ev

\* convert has taken the event and has not yet put it back or found it due
Taken(ev) == cpc \in {"eval", "requeue"} /\ conversion_event = ev

\* a take removes one unread entry, the requeue that follows a not-ready
\* take adds one: the event taken
RequeueRestoresCount ==
  /\ (cpc = "get" /\ cpc' = "eval") => Len(queue') = Len(queue) - 1
  /\ (cpc = "requeue" /\ cpc' = "sleeping")
       => /\ Len(queue') = Len(queue) + 1
          /\ conversion_event \in Range(queue')
          /\ conversion_event \notin Range(queue)

\* C12 as stated. Queue ownership: in every reachable state every inserted
\* event whose finalize has not begun is an element of the queue, and a
\* not-ready take followed by the requeue leaves the number of unread
\* entries unchanged.
C12_QueueOwnsUnfinalized ==
  /\ [](\A i \in 1..Len(puts) :
          ~FinalizeBegun(puts[i]) => puts[i] \in Range(queue))
  /\ [][RequeueRestoresCount]_vars

\* C12, amended. In every reachable state every inserted event whose
\* finalize has not begun is an element of the queue or is the one event
\* convert has taken and not yet put back, never both; a not-ready take
\* followed by the requeue leaves the number of unread entries unchanged.
C12_QueueOrConsumerOwnsUnfinalized ==
  /\ [](\A i \in 1..Len(puts) :
          ~FinalizeBegun(puts[i])
            => (puts[i] \in Range(queue)) # Taken(puts[i]))
  /\ [][RequeueRestoresCount]_vars

\* C12 witness: convert sleeps after a requeue; the event it took and put
\* back is in the queue again, next to a second event.
C12_Witness ==
  /\ cpc = "sleeping"
  /\ Len(queue) = 2
  /\ conversion_event \in Range(queue)
  /\ conversions = <<>>

\* an event other than the one convert holds is pending, sorts behind it
\* (its converted_at is not smaller) and is due at the present clock
DueBehind(ev) ==
  \E i \in 1..Len(queue) :
    /\ queue[i].converted_at >= ev.converted_at
    /\ queue[i].converted_at - now <= PERIOD

\* C13. Starvation under producer load: convert requeues an event only when
\* the slack it measured at line 113 exceeded PERIOD, and at that clock read
\* no pending event behind the head was due; the state in which it requeues
\* a head measured not yet due while a due event is pending behind it is
\* reached when the clock advances between the read and the requeue
\* (C13_Witness).
C13_RequeueOfNotDueHead ==
  [][/\ (cpc = "eval" /\ cpc' = "requeue")
          => /\ time_to_wait' > PERIOD
             /\ ~DueBehind(conversion_event)
     /\ (cpc = "requeue" /\ cpc' = "sleeping")
          => /\ time_to_wait > PERIOD
             /\ conversion_event \in Range(queue')]_vars

\* C13 witness: convert took the head, measured a slack above PERIOD and is
\* about to requeue it, while another event that is due by now is pending in
\* the queue behind it.
C13_Witness ==
  /\ cpc = "requeue"
  /\ time_to_wait > PERIOD
  /\ queue # <<>>
  /\ DueBehind(conversion_event)

\* a log_conversion call of convert has raised
ConvertCrashed == \E i \in 1..Len(conversions) : ~conversions[i].ok

\* C14. Crashed scheduling loop: once a finalize call has failed inside
\* convert the consumer has stopped for good: whatever step is taken
\* afterwards, no further finalize call is made (for events pending at the
\* crash or inserted later) and every event in the queue stays there, so the
\* queue only grows with the producer's inserts.
C14_CrashLosesConversions ==
  [][ConvertCrashed
       => /\ cpc = "dead" /\ cpc' = "dead"
          /\ conversions' = conversions
          /\ Len(queue') >= Len(queue)
          /\ \A i \in 1..Len(queue) : queue[i] \in Range(queue')]_vars

\* C14 witness: the finalize of the first event failed; the producer has
\* inserted a second event, which is overdue and still in the queue, and it
\* stands at queue.put again or can go on.
C14_Witness ==
  /\ ConvertCrashed
  /\ cpc = "dead"
  /\ Len(puts) = 2
  /\ conversions = <<[ev |-> puts[1], ok |-> FALSE]>>
  /\ queue = <<puts[2]>>
  /\ puts[2].converted_at < now

\* the lead carries an identifier the leads table has assigned
IdAssigned(l) == l.id # None /\ l.id \in leads

\* C15. Set-identifier invariant: create_lead is past the lead insert only
\* with a lead whose id is assigned, and every prediction published, coupon
\* created, event built, inserted, pending or taken, and every finalize
\* call carries a lead whose id is assigned.
C15_SetIdentifier ==
  /\ ppc \in {"predict", "coupon", "decide", "put"} => IdAssigned(lead)
  /\ ppc = "put" => IdAssigned(new_event.lead)
  /\ \A i \in 1..Len(predictions) :
       IdAssigned([id |-> predictions[i].lead_id])
  /\ \A i \in 1..Len(coupons) : IdAssigned([id |-> coupons[i].lead_id])
  /\ \A i \in 1..Len(puts) : IdAssigned(puts[i].lead)
  /\ \A i \in 1..Len(queue) : IdAssigned(queue[i].lead)
  /\ Held => IdAssigned(conversion_event.lead)
  /\ \A i \in 1..Len(conversions) : IdAssigned(conversions[i].ev.lead)

\* C15 witness: a prediction, a coupon, a pending event and a finalize call
\* have all happened.
C15_Witness ==
  /\ predictions # <<>>
  /\ coupons # <<>>
  /\ queue # <<>>
  /\ conversions # <<>>

\* a coupon has been created for the lead
HasCoupon(id) == \E i \in 1..Len(coupons) : coupons[i].lead_id = id

\* C16. Coupon rule: once create_lead is past the coupon step, a coupon was
\* issued for the lead if and only if its score is not above the threshold
\* one half (label "will not convert") and its bucket is experiment; every
\* coupon belongs to a lead published in the experiment bucket, so a control
\* lead never has one; no lead has two coupons.
C16_CouponRule ==
  /\ ppc \in {"decide", "put"}
       => /\ sent_coupon
               <=> (2 * score <= ScoreDen /\ experiment_bucket = "experiment")
          /\ sent_coupon <=> HasCoupon(lead.id)
          /\ experiment_bucket = "control" => ~HasCoupon(lead.id)
  /\ \A i \in 1..Len(coupons) :
       \E j \in 1..Len(predictions) :
         /\ predictions[j].lead_id = coupons[i].lead_id
         /\ predictions[j].experiment_bucket = "experiment"
  /\ \A i, j \in 1..Len(coupons) :
       coupons[i].lead_id = coupons[j].lead_id => i = j

\* C16 witness: the first lead fell in the control bucket and has no coupon
\* whatever its score; the second, in the experiment bucket with a score
\* below the threshold, has just been issued one.
C16_Witness ==
  /\ ppc = "decide"
  /\ sent_coupon
  /\ 2 * score <= ScoreDen
  /\ Len(predictions) = 2
  /\ predictions[1].experiment_bucket = "control"
  /\ Len(coupons) = 1
  /\ coupons[1].lead_id = lead.id

\* the number of predictions published for the lead
Published(id) ==
  Cardinality({i \in 1..Len(predictions) : predictions[i].lead_id = id})

\* an event of the lead has been inserted into the queue
HasPut(id) == \E i \in 1..Len(puts) : puts[i].lead.id = id

\* C17. Producer step order: in an iteration the lead is persisted, then the
\* prediction published, then the coupon created, then the event inserted:
\* at the publish step the lead is persisted and has no prediction, coupon
\* or event; at the coupon step it has exactly one prediction and no coupon
\* or event; at the decide and insert steps it has exactly one prediction
\* and no event yet. Every coupon and every inserted event belongs to a lead
\* with exactly one prediction; a persisted lead has exactly one prediction
\* unless its publish call has not returned, and never two. Every finalize
\* call, begun or done, is for an event that was inserted before.
C17_ProducerStepOrder ==
  /\ ppc = "predict"
       => /\ lead.id \in leads
          /\ Published(lead.id) = 0
          /\ ~HasCoupon(lead.id) /\ ~HasPut(lead.id)
  /\ ppc = "coupon"
       => Published(lead.id) = 1 /\ ~HasCoupon(lead.id) /\ ~HasPut(lead.id)
  /\ ppc \in {"decide", "put"}
       => Published(lead.id) = 1 /\ ~HasPut(lead.id)
  /\ \A i \in 1..Len(predictions) : predictions[i].lead_id \in leads
  /\ \A i \in 1..Len(coupons) : Published(coupons[i].lead_id) = 1
  /\ \A i \in 1..Len(puts) : Published(puts[i].lead.id) = 1
  /\ \A id \in leads :
       /\ Published(id) <= 1
       /\ Published(id) = 0
            => id = nextId - 1 /\ (ppc = "dead" \/ (ppc = "predict" /\ lead.id = id))
  /\ Held => conversion_event \in Range(puts)
  /\ \A i \in 1..Len(conversions) : conversions[i].ev \in Range(puts)

\* C17 witness: the second lead has been persisted, published, given a
\* coupon and its event inserted, in that order, and convert has finalized
\* an inserted event.
C17_Witness ==
  /\ ppc = "sleeping"
  /\ Len(predictions) = 2
  /\ HasCoupon(nextId - 1)
  /\ HasPut(nextId - 1)
  /\ conversions # <<>>

\* C18. Conversion decision: where create_lead decides (lines 208-215), for
\* every pair of flips the lead converts if and only if the first flip is
\* below the score, or a coupon was issued and the second flip is below the
\* score; the second flip changes the outcome only when a coupon was issued
\* and the first flip failed; an event is built only for a lead that can
\* convert, and it is the event of that lead. No lead has two inserted
\* events, so no lead is finalized by two different events.
C18_ConversionDecision ==
  /\ ppc = "decide"
       => \A flip1, flip2 \in Scores :
            /\ DidConvert(flip1, flip2)
                 <=> (flip1 < score \/ (sent_coupon /\ flip2 < score))
            /\ ~(sent_coupon /\ ~(flip1 < score))
                 => \A other \in Scores :
                      DidConvert(flip1, other) = DidConvert(flip1, flip2)
  /\ ppc = "put"
       => /\ \E flip1, flip2 \in Scores : DidConvert(flip1, flip2)
          /\ new_event.lead = lead
          /\ ~HasPut(lead.id)
  /\ \A i, j \in 1..Len(puts) : puts[i].lead = puts[j].lead => i = j
  /\ \A i, j \in 1..Len(conversions) :
       conversions[i].ev.lead = conversions[j].ev.lead
         => conversions[i].ev = conversions[j].ev

\* C18 witness: both leads have their event inserted, at least one of them
\* after a coupon, and both events have been finalized.
C18_Witness ==
  /\ Len(puts) = 2
  /\ coupons # <<>>
  /\ HasPut(coupons[1].lead_id)
  /\ Len(conversions) = 2

\* the amount is a positive integer of the range of line 220
AmountInRange(ev) ==
  /\ ev.conversion_amount \in Nat
  /\ ev.conversion_amount > 0
  /\ MIN_CONVERSION_AMOUNT <= ev.conversion_amount
  /\ ev.conversion_amount <= MAX_CONVERSION_AMOUNT

\* the step is the queue.put of create_lead
ProducerPuts == ppc = "put" /\ puts' = Append(puts, new_event)

\* C19 as stated. At the moment of its insertion every event has a fire
\* timestamp t with now <= t < now + 30 s and an amount in [1000, 25000].
C19_TimestampWithinWindowAtInsert ==
  [][ProducerPuts
       => /\ now <= new_event.converted_at
          /\ new_event.converted_at < now + CONVERSION_WINDOW
          /\ AmountInRange(new_event)]_vars

\* C19, amended. Every event is built with a fire timestamp t with
\* c <= t < c + 30 s, c being the clock read of line 217 that builds it, and
\* a positive integer amount in [1000, 25000]; the event inserted is the
\* event built, so at the insert t < now + 30 s still holds and t is never
\* before the creation time c, but t may already lie before the clock of
\* the insert.
C19_TimestampWithinWindowAtCreation ==
  [][/\ (ppc = "decide" /\ ppc' = "put")
          => /\ now <= new_event'.converted_at
             /\ new_event'.converted_at < now + CONVERSION_WINDOW
             /\ AmountInRange(new_event')
     /\ ProducerPuts
          => /\ new_event \in Range(queue')
             /\ new_event.converted_at < now + CONVERSION_WINDOW
             /\ AmountInRange(new_event)]_vars

\* C19 witness: create_lead stands at queue.put with an event whose fire
\* timestamp the clock has already passed.
C19_Witness ==
  /\ ppc = "put"
  /\ new_event.converted_at < now

\* the number of places that have the event: the queue, convert between its
\* take and the requeue or the end of the finalize call, the finalize
\* calls made
Places(ev) ==
  Cardinality({i \in 1..Len(queue) : queue[i] = ev})
    + (IF Held /\ conversion_event = ev THEN 1 ELSE 0)
    + Cardinality({i \in 1..Len(conversions) : conversions[i].ev = ev})

\* C20. Event conservation: every inserted event is in exactly one place
\* (in the queue, held by convert, or finalized); convert holds an event
\* only between a take and the requeue or the end of the finalize call,
\* and that event is an inserted one; while it sleeps or waits at
\* queue.get the event it last took is back in the queue or finalized;
\* inserted = in queue + held + finalized.
C20_EventConservation ==
  /\ \A i \in 1..Len(puts) : Places(puts[i]) = 1
  /\ \A i \in 1..Len(queue) : queue[i] \in Range(puts)
  /\ Held => conversion_event \in Range(puts)
  /\ cpc = "sleeping" => conversion_event \in Range(queue)
  /\ cpc = "get"
       => \/ conversion_event = NoEvent
          \/ conversion_event \in Range(queue)
          \/ \E i \in 1..Len(conversions) :
               conversions[i].ev = conversion_event
  /\ Len(puts)
       = Len(queue) + (IF Held THEN 1 ELSE 0) + Len(conversions)

\* C20 witness: of two inserted events convert holds one, and the other is
\* either in the queue or finalized.
C20_Witness ==
  /\ Held
  /\ Len(puts) = 2
  /\ Len(queue) + Len(conversions) = 1
  /\ ~ConvertCrashed

====
